---------------------------- MODULE Spec2Model ----------------------------
(***************************************************************************)
(* The calendar engine of shamsy-calendar (src/main.go): the two leap-year *)
(* predicates, the two month-length lookups and the two date conversions.  *)
(* The functions are pure; a behaviour draws one input and applies one     *)
(* function to it, recording the function called, its result and whether   *)
(* the call ended in a runtime panic.                                      *)
(***************************************************************************)
EXTENDS Integers, Sequences, FiniteSets

VARIABLES
    input,   \* the call's arguments: <<year>>, <<year, month>> or <<year, month, day>>
    fn,      \* the function applied to input, "none" before the call
    ret,     \* what the call returned; <<>> before the call or after a panic
    err,     \* "none", the runtime panic that ended the call, or the error reported
    calls,   \* the conversions a command made: <<function, year, month, day>>
    cache,   \* the holiday cache: os.UserCacheDir and the file of each year
    requests \* the number of http.Get requests made so far

vars == <<input, fn, ret, err, calls, cache, requests>>

---------------------------------------------------------------------------
(* Bounds of the model.                                                    *)

\* Leap predicates and month lengths are applied to every year 1..MaxYear.
MaxYear == 3400

\* Month arguments range over (1 - MonthSlack)..(12 + MonthSlack).
MonthSlack == 2

\* Dates are drawn from windows of WindowYears years, one per anchor year.
WindowYears == 4

GregorianAnchors == {1, 620, 1000, 1598, 1899, 1999, 2022, 2995}

ShamsyAnchors == {1, 471, 977, 1277, 1400, 1405, 2373, 3291}

Years == 1..MaxYear

Months == (1 - MonthSlack)..(12 + MonthSlack)

Days == 1..31

Window(anchors) == UNION {a..(a + WindowYears - 1) : a \in anchors}

GregorianYears == Window(GregorianAnchors)

ShamsyYears == Window(ShamsyAnchors)

---------------------------------------------------------------------------
(* Go integer arithmetic: / truncates toward zero and % takes the sign of  *)
(* the dividend.  Every divisor in the program is a positive literal.      *)

GoDiv(a, b) == IF a >= 0 THEN a \div b ELSE -((-a) \div b)

GoMod(a, b) == a - b * GoDiv(a, b)

\* s[i] of a Go slice: indices start at 0.
GoIndex(s, i) == s[i + 1]

\* A Go index expression s[i] panics unless 0 <= i < len(s).
InRange(s, i) == 0 <= i /\ i < Len(s)

---------------------------------------------------------------------------
(* LeapYearOracle                                                          *)

leapYears == <<1, 5, 9, 13, 17, 22, 26, 30>>

isshamsyLeapYear(year) ==
    LET cycle == GoMod(year - 474, 2820)
        mod   == GoMod(cycle, 33)
    IN  \E i \in 0..(Len(leapYears) - 1) : mod = GoIndex(leapYears, i)

isGregorianLeapYear_no400(year) ==
    GoMod(year, 4) = 0 /\ GoMod(year, 100) # 0

isGregorianLeapYear(year) ==
    (GoMod(year, 4) = 0 /\ GoMod(year, 100) # 0) \/ (GoMod(year, 400) = 0)

---------------------------------------------------------------------------
(* MonthLengthTable                                                        *)

shamsyMonthDays_lt6(year, month) ==
    IF month < 6 THEN 31
    ELSE IF month <= 11 THEN 30
    ELSE IF month = 12 THEN (IF isshamsyLeapYear(year) THEN 30 ELSE 29)
    ELSE 0

shamsyMonthDays(year, month) ==
    IF month <= 6 THEN 31
    ELSE IF month <= 11 THEN 30
    ELSE IF month = 12 THEN (IF isshamsyLeapYear(year) THEN 30 ELSE 29)
    ELSE 0

daysInMonth == <<31, 28, 31, 30, 31, 30, 31, 31, 30, 31, 30, 31>>

\* daysInMonth[month-1] is reached, with an index outside the slice.
gregorianMonthDaysPanics(year, month) ==
    /\ ~(month = 2 /\ isGregorianLeapYear(year))
    /\ ~InRange(daysInMonth, month - 1)

gregorianMonthDays_noLeap(year, month) ==
    GoIndex(daysInMonth, month - 1)

gregorianMonthDays(year, month) ==
    IF month = 2 /\ isGregorianLeapYear(year) THEN 29
    ELSE GoIndex(daysInMonth, month - 1)

---------------------------------------------------------------------------
(* DateConverter: Gregorian -> Solar Hijri                                 *)

\* The two month-start tables of gregorianToshamsy: the one of the gm > 2
\* branch and the shorter one of the other branch.
monthDaysFrom3 == <<0, 31, 59, 90, 120, 151, 181, 212, 243, 273, 304, 334>>

monthDaysTo2 == <<0, 31, 59>>

\* The closed-form day count, written once per branch in the code with
\* gy2 the only difference.
gregorianTotalDays(gy, gy2, gd) ==
    365 * gy + GoDiv(gy2 + 3, 4) - GoDiv(gy2 + 99, 100) + GoDiv(gy2 + 399, 400)
        - 80 + gd

\* The reduction of the day count to (jy, jm, jd), identical in both branches.
shamsyFromTotalDays(jy0, totalDays0) ==
    LET jy1        == jy0 + 33 * GoDiv(totalDays0, 12053)
        totalDays1 == GoMod(totalDays0, 12053)
        jy2        == jy1 + 4 * GoDiv(totalDays1, 1461)
        totalDays2 == GoMod(totalDays1, 1461)
        jy3        == IF totalDays2 > 365
                        THEN jy2 + GoDiv(totalDays2 - 1, 365) ELSE jy2
        totalDays3 == IF totalDays2 > 365
                        THEN GoMod(totalDays2 - 1, 365) ELSE totalDays2
    IN  IF totalDays3 < 186
          THEN <<jy3, 1 + GoDiv(totalDays3, 31), 1 + GoMod(totalDays3, 31)>>
          ELSE <<jy3, 7 + GoDiv(totalDays3 - 186, 30),
                      1 + GoMod(totalDays3 - 186, 30)>>

gregorianToshamsy_anchor978(gy0, gm, gd) ==
    LET jy == IF gy0 > 1600 THEN 978 ELSE 0
        gy == IF gy0 > 1600 THEN gy0 - 1600 ELSE gy0 - 621
    IN  IF gm > 2
          THEN shamsyFromTotalDays(jy,
                 gregorianTotalDays(gy, gy, gd) + GoIndex(monthDaysFrom3, gm - 1))
          ELSE shamsyFromTotalDays(jy,
                 gregorianTotalDays(gy, gy - 1, gd) + GoIndex(monthDaysTo2, gm - 1))

gregorianToshamsy(gy0, gm, gd) ==
    LET jy == IF gy0 > 1600 THEN 979 ELSE 0
        gy == IF gy0 > 1600 THEN gy0 - 1600 ELSE gy0 - 621
    IN  IF gm > 2
          THEN shamsyFromTotalDays(jy,
                 gregorianTotalDays(gy, gy, gd) + GoIndex(monthDaysFrom3, gm - 1))
          ELSE shamsyFromTotalDays(jy,
                 gregorianTotalDays(gy, gy - 1, gd) + GoIndex(monthDaysTo2, gm - 1))

\* monthDays[gm-1] is reached with an index outside the branch's table.
gregorianToshamsyPanics_noShift(gy0, gm, gd) ==
    IF gm > 2 THEN ~InRange(monthDaysFrom3, gm) ELSE ~InRange(monthDaysTo2, gm)

gregorianToshamsyPanics(gy0, gm, gd) ==
    IF gm > 2 THEN ~InRange(monthDaysFrom3, gm - 1)
    ELSE ~InRange(monthDaysTo2, gm - 1)

---------------------------------------------------------------------------
(* DateConverter: Solar Hijri -> Gregorian                                 *)

\* The day count of a Solar Hijri date: the rebasing by 1595, the closed
\* form and the month contribution.
shamsyDays_dayBefore(jy0, jm, jd) ==
    LET jy == jy0 + 1595
    IN  -355668 + (365 * jy) + (GoDiv(jy, 33) * 8) + GoDiv(GoMod(jy, 33) + 3, 4)
          + jd - 1
          + (IF jm < 7 THEN (jm - 1) * 31 ELSE ((jm - 7) * 30) + 186)

shamsyDays(jy0, jm, jd) ==
    LET jy == jy0 + 1595
    IN  -355668 + (365 * jy) + (GoDiv(jy, 33) * 8) + GoDiv(GoMod(jy, 33) + 3, 4)
          + jd
          + (IF jm < 7 THEN (jm - 1) * 31 ELSE ((jm - 7) * 30) + 186)

\* Peeling of 400-year, 100-year and 4-year blocks and of the last years:
\* <<gy, days>> with days the 0-based day of the year gy.
gregorianYearOfDays(days0) ==
    LET gy1   == 400 * GoDiv(days0, 146097)
        days1 == GoMod(days0, 146097)
        cent  == days1 > 36524
        gy2   == IF cent THEN gy1 + 100 * GoDiv(days1 - 1, 36524) ELSE gy1
        days2 == IF cent
                   THEN LET r == GoMod(days1 - 1, 36524)
                        IN  IF r >= 365 THEN r + 1 ELSE r
                   ELSE days1
        gy3   == gy2 + 4 * GoDiv(days2, 1461)
        days3 == GoMod(days2, 1461)
    IN  IF days3 > 365
          THEN <<gy3 + GoDiv(days3 - 1, 365), GoMod(days3 - 1, 365)>>
          ELSE <<gy3, days3>>

monthDaysOfYear_noLeap(sal_a) ==
    <<31, 28, 31, 30, 31, 30, 31, 31, 30, 31, 30, 31>>

\* monthDays of shamsyToGregorian, February carrying sal_a.
monthDaysOfYear(sal_a) ==
    <<31, 28 + sal_a, 31, 30, 31, 30, 31, 31, 30, 31, 30, 31>>

\* for gm < 12 && gd > monthDays[gm] { gd -= monthDays[gm]; gm++ }
RECURSIVE monthWalk(_, _, _)
monthWalk(monthDays, gm, gd) ==
    IF gm < 12 /\ gd > GoIndex(monthDays, gm)
      THEN monthWalk(monthDays, gm + 1, gd - GoIndex(monthDays, gm))
      ELSE <<gm, gd>>

shamsyToGregorian(jy, jm, jd) ==
    LET yd    == gregorianYearOfDays(shamsyDays(jy, jm, jd))
        gy    == yd[1]
        sal_a == IF (GoMod(gy, 4) = 0 /\ GoMod(gy, 100) # 0) \/ GoMod(gy, 400) = 0
                   THEN 1 ELSE 0
        w     == monthWalk(monthDaysOfYear(sal_a), 0, yd[2] + 1)
    IN  <<gy, w[1] + 1, w[2]>>

\* monthDays[gm] is read by the month loop with an index outside the table.
RECURSIVE monthWalkPanics(_, _, _)
monthWalkPanics(monthDays, gm, gd) ==
    /\ gm < 12
    /\ \/ ~InRange(monthDays, gm)
       \/ /\ gd > GoIndex(monthDays, gm)
          /\ monthWalkPanics(monthDays, gm + 1, gd - GoIndex(monthDays, gm))

shamsyToGregorianPanics(jy, jm, jd) ==
    LET yd    == gregorianYearOfDays(shamsyDays(jy, jm, jd))
        gy    == yd[1]
        sal_a == IF (GoMod(gy, 4) = 0 /\ GoMod(gy, 100) # 0) \/ GoMod(gy, 400) = 0
                   THEN 1 ELSE 0
    IN  monthWalkPanics(monthDaysOfYear(sal_a), 0, yd[2] + 1)

---------------------------------------------------------------------------
(* WeekdayResolver                                                         *)

goToshamsyWeekday_identity == <<0, 1, 2, 3, 4, 5, 6>>

goToshamsyWeekday == <<1, 2, 3, 4, 5, 6, 0>>

\* Days of the year before each month, in a common year.
daysBefore == <<0, 31, 59, 90, 120, 151, 181, 212, 243, 273, 304, 334>>

\* The proleptic Gregorian day number of a date, 0001-01-01 being day 0.
goDayNumber(y, m, d) ==
    365 * (y - 1) + ((y - 1) \div 4) - ((y - 1) \div 100) + ((y - 1) \div 400)
      + daysBefore[m]
      + (IF m >= 3 /\ ((y % 4 = 0 /\ y % 100 # 0) \/ y % 400 = 0) THEN 1 ELSE 0)
      + (d - 1)

\* time.Date(y, m, d, 0, 0, 0, 0, loc).Weekday(): 0 = Sunday .. 6 = Saturday.
\* 0001-01-01 is a Monday.
goWeekday(y, m, d) == (goDayNumber(y, m, d) + 1) % 7

getFirstWeekday(jy, jm) ==
    LET g == shamsyToGregorian(jy, jm, 1)
    IN  GoIndex(goToshamsyWeekday, goWeekday(g[1], g[2], g[3]))

shamsyWeekdays ==
    <<"Saturday", "Sunday", "Monday", "Tuesday", "Wednesday", "Thursday", "Friday">>

getWeekdayName(gy, gm, gd) ==
    GoIndex(shamsyWeekdays, GoIndex(goToshamsyWeekday, goWeekday(gy, gm, gd)))

---------------------------------------------------------------------------
(* The engine as a state machine: one call of one function per behaviour.  *)

YearInputs == {<<y>> : y \in Years}

MonthInputs == {<<y, m>> : y \in Years, m \in Months}

DateInputs ==
    {<<y, m, d>> : y \in GregorianYears \cup ShamsyYears, m \in 1..12, d \in Days}

\* The CalendarDate invariant of the input, per calendar.
ValidGregorian(date) ==
    /\ date[1] >= 1
    /\ date[2] \in 1..12
    /\ date[3] \in 1..gregorianMonthDays(date[1], date[2])

ValidShamsy(date) ==
    /\ date[1] >= 1
    /\ date[2] \in 1..12
    /\ date[3] \in 1..shamsyMonthDays(date[1], date[2])

Init ==
    /\ input \in YearInputs \cup MonthInputs \cup DateInputs
    /\ fn = "none"
    /\ ret = <<>>
    /\ err = "none"
    /\ calls = {}
    /\ cache = <<>>
    /\ requests = 0

Return(name, value) ==
    /\ fn' = name
    /\ ret' = value
    /\ err' = "none"
    /\ UNCHANGED <<input, calls, cache, requests>>

Panic(name, what) ==
    /\ fn' = name
    /\ ret' = <<>>
    /\ err' = what
    /\ UNCHANGED <<input, calls, cache, requests>>

CallIsshamsyLeapYear ==
    /\ fn = "none"
    /\ Len(input) = 1
    /\ Return("isshamsyLeapYear", isshamsyLeapYear(input[1]))

CallIsGregorianLeapYear ==
    /\ fn = "none"
    /\ Len(input) = 1
    /\ Return("isGregorianLeapYear", isGregorianLeapYear(input[1]))

CallShamsyMonthDays ==
    /\ fn = "none"
    /\ Len(input) = 2
    /\ Return("shamsyMonthDays", shamsyMonthDays(input[1], input[2]))

CallGregorianMonthDays ==
    /\ fn = "none"
    /\ Len(input) = 2
    /\ IF gregorianMonthDaysPanics(input[1], input[2])
         THEN Panic("gregorianMonthDays", "index out of range")
         ELSE Return("gregorianMonthDays", gregorianMonthDays(input[1], input[2]))

\* The conversions are applied to contract-conforming dates of the source calendar.
CallGregorianToshamsy ==
    /\ fn = "none"
    /\ Len(input) = 3
    /\ input[1] \in GregorianYears
    /\ ValidGregorian(input)
    /\ IF gregorianToshamsyPanics(input[1], input[2], input[3])
         THEN Panic("gregorianToshamsy", "index out of range")
         ELSE Return("gregorianToshamsy",
                     gregorianToshamsy(input[1], input[2], input[3]))

CallShamsyToGregorian ==
    /\ fn = "none"
    /\ Len(input) = 3
    /\ input[1] \in ShamsyYears
    /\ ValidShamsy(input)
    /\ IF shamsyToGregorianPanics(input[1], input[2], input[3])
         THEN Panic("shamsyToGregorian", "index out of range")
         ELSE Return("shamsyToGregorian",
                     shamsyToGregorian(input[1], input[2], input[3]))

\* getFirstWeekday is called with the month of a calendar page.
CallGetFirstWeekday ==
    /\ fn = "none"
    /\ Len(input) = 2
    /\ input[2] \in 1..12
    /\ Return("getFirstWeekday", getFirstWeekday(input[1], input[2]))

CallGetWeekdayName ==
    /\ fn = "none"
    /\ Len(input) = 3
    /\ input[1] \in GregorianYears
    /\ ValidGregorian(input)
    /\ Return("getWeekdayName", getWeekdayName(input[1], input[2], input[3]))

Next ==
    \/ CallIsshamsyLeapYear
    \/ CallIsGregorianLeapYear
    \/ CallShamsyMonthDays
    \/ CallGregorianMonthDays
    \/ CallGregorianToshamsy
    \/ CallShamsyToGregorian
    \/ CallGetFirstWeekday
    \/ CallGetWeekdayName

Spec == Init /\ [][Next]_vars

TypeOK ==
    /\ fn \in {"none", "isshamsyLeapYear", "isGregorianLeapYear", "shamsyMonthDays",
               "gregorianMonthDays", "gregorianToshamsy", "shamsyToGregorian",
               "getFirstWeekday", "getWeekdayName"}
    /\ err \in {"none", "index out of range"}
    /\ Len(input) \in 1..3
    /\ calls = {}
    /\ cache = <<>>
    /\ requests = 0

---------------------------------------------------------------------------
(* The callers of the engine: handleConvertDate, main and the two calendar *)
(* pages.  A command's input is its arguments after strconv.Atoi.          *)

\* parseDate, after the three fields were read as integers.
parseDateRejects(month, day) ==
    month < 1 \/ month > 12 \/ day < 1 \/ day > 31

\* The error handleConvertDate returns, "none" when it converts.
handleConvertDateError(isGregorian, year, month, day) ==
    IF parseDateRejects(month, day) THEN "date out of range"
    ELSE IF isGregorian
      THEN IF month > 12 \/ day > gregorianMonthDays(year, month)
             THEN "invalid Gregorian date" ELSE "none"
      ELSE IF month > 12 \/ day > shamsyMonthDays(year, month)
             THEN "invalid Shamsi date" ELSE "none"

\* What handleConvertDate prints: the converted date and its weekday name.
handleConvertDateOutput(isGregorian, year, month, day) ==
    IF isGregorian
      THEN <<gregorianToshamsy(year, month, day), getWeekdayName(year, month, day)>>
      ELSE LET g == shamsyToGregorian(year, month, day)
           IN  <<g, getWeekdayName(g[1], g[2], g[3])>>

\* The output line indexes shamsyMonths (gregorianMonths) with the month
\* the conversion returned: a month outside 1..12 panics.
handleConvertDatePanics(isGregorian, year, month, day) ==
    LET r == IF isGregorian THEN gregorianToshamsy(year, month, day)
                            ELSE shamsyToGregorian(year, month, day)
    IN  r[2] - 1 \notin 0..11

\* The loop of printGregorianCalendar: the conversions it makes and the
\* holiday keys it looks up (none for the highlighted day).
printGregorianCalendarCalls(year, month) ==
    {<<"gregorianToshamsy", year, month, d>> :
        d \in 1..gregorianMonthDays(year, month)}

printGregorianCalendarKeys(year, month, highlight) ==
    {gregorianToshamsy(year, month, d) :
        d \in (1..gregorianMonthDays(year, month)) \ {highlight}}

\* printshamsyCalendar: getFirstWeekday converts day 1, the loop every day.
printshamsyCalendarCalls(jy, jm) ==
    {<<"shamsyToGregorian", jy, jm, 1>>}
      \cup {<<"shamsyToGregorian", jy, jm, d>> : d \in 1..shamsyMonthDays(jy, jm)}

printshamsyCalendarKeys(jy, jm, highlight) ==
    {<<jy, jm, d>> : d \in (1..shamsyMonthDays(jy, jm)) \ {highlight}}

\* The day loop of printshamsyCalendar from day d on, the cursor at column
\* currentPos: one cell per day, with its column and its colour.  holidays
\* is the set of days of the month whose key is in the holiday map.
RECURSIVE printshamsyDays(_, _, _, _, _, _)
printshamsyDays(jy, jm, highlight, holidays, d, currentPos) ==
    IF d > shamsyMonthDays(jy, jm) THEN <<>>
    ELSE LET g       == shamsyToGregorian(jy, jm, d)
             weekday == goWeekday(g[1], g[2], g[3])
             colour  == IF d = highlight THEN "yellow"
                        ELSE IF d \in holidays THEN "offday"
                        ELSE IF weekday = 5 THEN "offday"
                        ELSE "blue"
             nextPos == IF (currentPos + 1) % 7 = 0 THEN 0 ELSE currentPos + 1
         IN  <<[day |-> d, col |-> currentPos, colour |-> colour]>>
               \o printshamsyDays(jy, jm, highlight, holidays, d + 1, nextPos)

printshamsyCalendar_noPadding(jy, jm, highlight, holidays) ==
    printshamsyDays(jy, jm, highlight, holidays, 1, 0)

printshamsyCalendar(jy, jm, highlight, holidays) ==
    printshamsyDays(jy, jm, highlight, holidays, 1, getFirstWeekday(jy, jm))

---------------------------------------------------------------------------
(* The commands as a state machine: one command per behaviour.             *)

\* Today's date is drawn from the windows of these years.
NowAnchors == {2022}

NowYears == Window(NowAnchors)

\* A year argument: strconv.Atoi accepts any integer.
ArgYears == {-1, 0} \cup GregorianYears \cup ShamsyYears

\* The highlighted day and the holiday days of a printed month.
Highlights == {0, 7, 30}

HolidaySets == {{}, {6, 13, 30}}

\* -c DATE [-g]: "-" is a separator of parseDate, so no field is negative.
ConvertInputs ==
    {<<"convert", g, y, m, d>> :
        g \in BOOLEAN, y \in ArgYears \ {-1}, m \in Months, d \in 0..32}

\* [-g] with no argument (y, m, d is today), with a year, or with a year
\* and a month (and a third argument); fetchOk is the outcome of the first
\* fetchHolidays.
ShowInputs ==
    {<<"show", g, 0, y, m, d, ok>> :
        g \in BOOLEAN, y \in NowYears, m \in 1..12, d \in Days, ok \in BOOLEAN}
    \cup {<<"show", g, 1, y, 0, 0, ok>> :
        g \in BOOLEAN, y \in ArgYears, ok \in BOOLEAN}
    \cup {<<"show", g, n, y, m, 0, ok>> :
        g \in BOOLEAN, n \in {2, 3}, y \in ArgYears, m \in Months, ok \in BOOLEAN}

PrintInputs ==
    {<<"printshamsyCalendar", jy, jm, h, hs>> :
        jy \in ShamsyYears, jm \in 1..12, h \in Highlights, hs \in HolidaySets}

InitCli ==
    /\ input \in ConvertInputs \cup ShowInputs \cup PrintInputs
    /\ fn = "none"
    /\ ret = <<>>
    /\ err = "none"
    /\ calls = {}
    /\ cache = <<>>
    /\ requests = 0

HandleConvertDate ==
    /\ fn = "none"
    /\ input[1] = "convert"
    /\ LET e == handleConvertDateError(input[2], input[3], input[4], input[5])
           p == e = "none" /\ handleConvertDatePanics(input[2], input[3],
                                                      input[4], input[5])
       IN  /\ fn' = "handleConvertDate"
           /\ err' = IF p THEN "index out of range" ELSE e
           /\ calls' = IF e # "none" THEN {}
                       ELSE {<<IF input[2] THEN "gregorianToshamsy"
                                           ELSE "shamsyToGregorian",
                               input[3], input[4], input[5]>>}
           /\ ret' = IF e # "none" \/ p THEN <<>>
                     ELSE handleConvertDateOutput(input[2], input[3], input[4],
                                                  input[5])
           /\ UNCHANGED <<input, cache, requests>>

\* What main leaves behind: the error it printed, the conversions it made,
\* the years it asked fetchHolidays for and the holiday keys it looked up.
MainDone(e, made, fetched, keys) ==
    /\ fn' = "main"
    /\ err' = e
    /\ calls' = made
    /\ ret' = [fetched |-> fetched, lookedUp |-> keys]
    /\ UNCHANGED <<input, cache, requests>>

\* case 0: the month of today.
MainNow ==
    /\ fn = "none"
    /\ input[1] = "show" /\ input[3] = 0
    /\ ValidGregorian(<<input[4], input[5], input[6]>>)
    /\ LET gy    == input[4]
           gm    == input[5]
           gd    == input[6]
           j     == gregorianToshamsy(gy, gm, gd)
           first == {<<"gregorianToshamsy", gy, gm, gd>>}
       IN  IF ~input[7]
             THEN MainDone("Error fetching holidays", first, {j[1]}, {})
           ELSE IF input[2]
             THEN MainDone("none", first \cup printGregorianCalendarCalls(gy, gm),
                           {j[1]}, printGregorianCalendarKeys(gy, gm, gd))
           ELSE MainDone("none", first \cup printshamsyCalendarCalls(j[1], j[2]),
                         {j[1]}, printshamsyCalendarKeys(j[1], j[2], j[3]))

\* case 1: the twelve months of a year.
MainYear ==
    /\ fn = "none"
    /\ input[1] = "show" /\ input[3] = 1
    /\ LET y  == input[4]
           jy == gregorianToshamsy(y, 1, 1)[1]
       IN  IF y < 1
             THEN MainDone("Invalid year argument.", {}, {}, {})
           ELSE IF input[2]
             THEN IF ~input[7]
                    THEN MainDone("Error fetching holidays",
                                  {<<"gregorianToshamsy", y, 1, 1>>}, {jy}, {})
                    ELSE MainDone("none",
                           {<<"gregorianToshamsy", y, 1, 1>>} \cup
                             UNION {printGregorianCalendarCalls(y, m) : m \in 1..12},
                           {jy, jy + 1},
                           UNION {printGregorianCalendarKeys(y, m, 0) : m \in 1..12})
           ELSE IF ~input[7]
                  THEN MainDone("Error fetching holidays", {}, {y}, {})
                  ELSE MainDone("none",
                         UNION {printshamsyCalendarCalls(y, m) : m \in 1..12},
                         {y},
                         UNION {printshamsyCalendarKeys(y, m, 0) : m \in 1..12})

\* case 2, 3: one month of a year; printGregorianHolidaysOfMonth converts
\* the same days again.
MainMonth ==
    /\ fn = "none"
    /\ input[1] = "show" /\ input[3] \in {2, 3}
    /\ LET y  == input[4]
           m  == input[5]
           jy == gregorianToshamsy(y, 1, 1)[1]
       IN  IF y < 1 \/ m < 1 \/ m > 12
             THEN MainDone("Invalid year or month argument.", {}, {}, {})
           ELSE IF input[2]
             THEN IF ~input[7]
                    THEN MainDone("Error fetching holidays",
                                  {<<"gregorianToshamsy", y, 1, 1>>}, {jy}, {})
                    ELSE MainDone("none",
                           {<<"gregorianToshamsy", y, 1, 1>>}
                             \cup printGregorianCalendarCalls(y, m),
                           {jy, jy + 1},
                           printGregorianCalendarKeys(y, m, 0))
           ELSE IF ~input[7]
                  THEN MainDone("Error fetching holidays", {}, {y}, {})
                  ELSE MainDone("none", printshamsyCalendarCalls(y, m), {y},
                                printshamsyCalendarKeys(y, m, 0))

PrintshamsyCalendar ==
    /\ fn = "none"
    /\ input[1] = "printshamsyCalendar"
    /\ fn' = "printshamsyCalendar"
    /\ err' = "none"
    /\ calls' = printshamsyCalendarCalls(input[2], input[3])
    /\ ret' = printshamsyCalendar(input[2], input[3], input[4], input[5])
    /\ UNCHANGED <<input, cache, requests>>

NextCli ==
    \/ HandleConvertDate
    \/ MainNow
    \/ MainYear
    \/ MainMonth
    \/ PrintshamsyCalendar

SpecCli == InitCli /\ [][NextCli]_vars

---------------------------------------------------------------------------
(* The holiday fetcher and its cache: fetchHolidays, readFromCache and     *)
(* saveToCache.  A holiday map is a function from keys <<year, month, day>>*)
(* (the text "%d-%02d-%02d") to descriptions; a description is the         *)
(* sequence of the pieces of its text.                                     *)

\* At most MaxRequests HTTP requests are made in one behaviour.
MaxRequests == 3

\* The years whose holidays are fetched.
CacheYears == {1403, 1404}

\* The DayData entries of an answer of the API: an answer holds any of them.
ApiDays ==
    { [solar |-> <<1403, 1, 1>>,  holiday |-> TRUE,  event |-> <<"Nowruz">>],
      [solar |-> <<1403, 1, 2>>,  holiday |-> TRUE,  event |-> <<>>],
      [solar |-> <<1403, 1, 3>>,  holiday |-> FALSE, event |-> <<"Spring">>],
      [solar |-> <<1403, 1, 13>>, holiday |-> TRUE,
       event |-> <<"Nature Day", "Sizdah Bedar">>] }

\* What http.Get and the decoding of its answer can come to.
Responses ==
    {[kind |-> k, days |-> {}] :
        k \in {"get failed", "bad status", "read failed", "bad json", "status false"}}
      \cup {[kind |-> "ok", days |-> ds] : ds \in SUBSET ApiDays}

\* strings.Join: the elements with sep between them.
RECURSIVE stringsJoin(_, _)
stringsJoin(elems, sep) ==
    IF Len(elems) <= 1 THEN elems
    ELSE <<Head(elems), sep>> \o stringsJoin(Tail(elems), sep)

\* The map fetchHolidays builds from a decoded answer.
holidaysOfResponse(days) ==
    [k \in {d.solar : d \in {x \in days : x.holiday}} |->
        LET d == CHOOSE x \in days : x.holiday /\ x.solar = k
        IN  IF Len(d.event) > 0 THEN stringsJoin(d.event, "; ")
                                ELSE <<"Holiday">>]

\* The error fetchHolidays returns for an answer it cannot use.
fetchError(resp) ==
    CASE resp.kind = "get failed"   -> "failed to fetch holidays"
      [] resp.kind = "bad status"   -> "unexpected status code"
      [] resp.kind = "read failed"  -> "failed to read response body"
      [] resp.kind = "bad json"     -> "failed to parse JSON"
      [] resp.kind = "status false" -> "API returned status false"
      [] OTHER                      -> "none"

\* The order of the keys as texts.
keyLess(a, b) ==
    \/ a[1] < b[1]
    \/ a[1] = b[1] /\ a[2] < b[2]
    \/ a[1] = b[1] /\ a[2] = b[2] /\ a[3] < b[3]

RECURSIVE sortedKeys(_)
sortedKeys(keys) ==
    IF keys = {} THEN <<>>
    ELSE LET first == CHOOSE k \in keys : \A o \in keys \ {k} : keyLess(k, o)
         IN  <<first>> \o sortedKeys(keys \ {first})

\* json.Marshal of a map: the members of one object, sorted by key.
jsonMarshal(holidays) ==
    LET keys == sortedKeys(DOMAIN holidays)
    IN  [i \in 1..Len(keys) |-> <<keys[i], holidays[keys[i]]>>]

\* json.Unmarshal into a map: the last member of a key wins.
jsonUnmarshal(data) ==
    [k \in {data[i][1] : i \in 1..Len(data)} |->
        LET last == CHOOSE i \in 1..Len(data) :
                        /\ data[i][1] = k
                        /\ \A j \in (i + 1)..Len(data) : data[j][1] # k
        IN  data[last][2]]

\* A cache file: absent, present without being the JSON of a map, or the
\* JSON saveToCache wrote.
MissingFile == [kind |-> "missing", data |-> <<>>]

DamagedFile == [kind |-> "damaged", data |-> <<>>]

JsonFile(data) == [kind |-> "json", data |-> data]

readFromCache_noHit(file) ==
    [err |-> "read error", holidays |-> <<>>]

readFromCache(file) ==
    IF file.kind = "missing" THEN [err |-> "read error", holidays |-> <<>>]
    ELSE IF file.kind = "damaged" THEN [err |-> "unmarshal error", holidays |-> <<>>]
    ELSE [err |-> "none", holidays |-> jsonUnmarshal(file.data)]

\* How saveToCache can end, and the files it can leave behind: os.WriteFile
\* truncates before it writes.
SaveOutcomes == {"saved", "mkdir failed", "write failed"}

saveToCache(file, holidays, outcome) ==
    IF outcome = "saved" THEN {JsonFile(jsonMarshal(holidays))}
    ELSE IF outcome = "mkdir failed" THEN {file}
    ELSE {file, DamagedFile}

InitCache ==
    /\ input = <<>>
    /\ fn = "none"
    /\ ret = <<>>
    /\ err = "none"
    /\ calls = {}
    /\ cache \in {[dir |-> d, files |-> f] :
                    d \in BOOLEAN, f \in [CacheYears -> {MissingFile, DamagedFile}]}
    /\ requests = 0

\* One call of fetchHolidays; calls is the I/O the call made.
FetchHolidays ==
    \E year \in CacheYears :
        LET file   == cache.files[year]
            cached == readFromCache(file)
        IN  /\ fn' = "fetchHolidays"
            /\ input' = <<year>>
            /\ IF ~cache.dir
                 THEN /\ err' = "failed to get cache directory"
                      /\ ret' = <<>>
                      /\ calls' = {"os.UserCacheDir"}
                      /\ UNCHANGED <<cache, requests>>
               ELSE IF cached.err = "none"
                 THEN /\ err' = "none"
                      /\ ret' = cached.holidays
                      /\ calls' = {"os.UserCacheDir", "os.ReadFile"}
                      /\ UNCHANGED <<cache, requests>>
               ELSE /\ requests < MaxRequests
                    /\ requests' = requests + 1
                    /\ \E resp \in Responses :
                         IF resp.kind # "ok"
                           THEN /\ err' = fetchError(resp)
                                /\ ret' = <<>>
                                /\ calls' = {"os.UserCacheDir", "os.ReadFile",
                                             "http.Get"}
                                /\ UNCHANGED cache
                           ELSE LET holidays == holidaysOfResponse(resp.days)
                                IN  \E outcome \in SaveOutcomes :
                                    \E written \in saveToCache(file, holidays, outcome) :
                                      /\ err' = "none"
                                      /\ ret' = holidays
                                      /\ calls' = {"os.UserCacheDir", "os.ReadFile",
                                                   "http.Get", "saveToCache"}
                                      /\ cache' = [cache EXCEPT !.files[year] = written]

NextCache == FetchHolidays

SpecCache == InitCache /\ [][NextCache]_vars

---------------------------------------------------------------------------
(* The earlier revision of the inverse transform, shamsyToGregorian of     *)
(* src/unnamed/part_000: the year is not rebased, the Gregorian year is    *)
(* anchored at 1600 and a leap flag is tracked across the peels.           *)

\* for i := 1; i < jm; i++ { days += 31 or 30 }
RECURSIVE monthLoopPart000(_, _)
monthLoopPart000(i, jm) ==
    IF i < jm
      THEN (IF i <= 6 THEN 31 ELSE 30) + monthLoopPart000(i + 1, jm)
      ELSE 0

shamsyDaysPart000(jy, jm, jd) ==
    -355668 + (365 * jy) + (GoDiv(jy, 33) * 8) + GoDiv(GoMod(jy, 33) + 3, 4)
      + jd - 1 + monthLoopPart000(1, jm)

\* days_in_month, February carrying the leap flag.
daysInMonthPart000(leap) ==
    <<31, IF leap THEN 29 ELSE 28, 31, 30, 31, 30, 31, 31, 30, 31, 30, 31>>

\* for gm < 12 && g_day_no >= days_in_month[gm] { g_day_no -= ...; gm++ }
RECURSIVE monthWalkPart000(_, _, _)
monthWalkPart000(days_in_month, gm, g_day_no) ==
    IF gm < 12 /\ g_day_no >= GoIndex(days_in_month, gm)
      THEN monthWalkPart000(days_in_month, gm + 1,
                            g_day_no - GoIndex(days_in_month, gm))
      ELSE <<gm, g_day_no>>

shamsyToGregorianPart000(jy, jm, jd) ==
    LET g0    == shamsyDaysPart000(jy, jm, jd) + 79
        gy0   == 1600 + 400 * GoDiv(g0, 146097)
        g1    == GoMod(g0, 146097)
        cent  == g1 >= 36525
        r     == GoMod(g1 - 1, 36524)
        gy1   == IF cent THEN gy0 + 100 * GoDiv(g1 - 1, 36524) ELSE gy0
        g2    == IF cent THEN (IF r >= 365 THEN r + 1 ELSE r) ELSE g1
        leap1 == IF cent THEN r >= 365 ELSE TRUE
        gy2   == gy1 + 4 * GoDiv(g2, 1461)
        g3    == GoMod(g2, 1461)
        last  == g3 >= 366
        gy3   == IF last THEN gy2 + GoDiv(g3 - 1, 365) ELSE gy2
        g4    == IF last THEN GoMod(g3 - 1, 365) ELSE g3
        leap  == IF last THEN FALSE ELSE leap1
        w     == monthWalkPart000(daysInMonthPart000(leap), 0, g4)
    IN  <<gy3, w[1] + 1, w[2] + 1>>

\* The earlier revision applied to a contract-conforming Solar Hijri date.
CallShamsyToGregorianPart000 ==
    /\ fn = "none"
    /\ Len(input) = 3
    /\ input[1] \in ShamsyYears
    /\ ValidShamsy(input)
    /\ Return("shamsyToGregorianPart000",
              shamsyToGregorianPart000(input[1], input[2], input[3]))

NextRevisions ==
    \/ CallShamsyToGregorian
    \/ CallShamsyToGregorianPart000

SpecRevisions == Init /\ [][NextRevisions]_vars

---------------------------------------------------------------------------
(* The day after a date, in each calendar, with the month lengths of the   *)
(* month-length lookups.                                                   *)

gregorianNextDay(date) ==
    IF date[3] < gregorianMonthDays(date[1], date[2])
      THEN <<date[1], date[2], date[3] + 1>>
      ELSE IF date[2] < 12 THEN <<date[1], date[2] + 1, 1>>
      ELSE <<date[1] + 1, 1, 1>>

shamsyNextDay(date) ==
    IF date[3] < shamsyMonthDays(date[1], date[2])
      THEN <<date[1], date[2], date[3] + 1>>
      ELSE IF date[2] < 12 THEN <<date[1], date[2] + 1, 1>>
      ELSE <<date[1] + 1, 1, 1>>

\* The range of Gregorian years the round-trip property names.
WideRange == 1000..3000

---------------------------------------------------------------------------
(* Properties                                                              *)

\* C1: round trip from Gregorian.  For every valid Gregorian date d with
\* year in 1000..3000, shamsyToGregorian(gregorianToshamsy(d)) = d.
C1_RoundTripFromGregorian ==
    (fn = "gregorianToshamsy" /\ input[1] \in WideRange)
        => shamsyToGregorian(ret[1], ret[2], ret[3]) = input

\* C2: round trip from Solar Hijri.  For every valid Solar Hijri date d of
\* the supported range (its Gregorian image in 1000..3000),
\* gregorianToshamsy(shamsyToGregorian(d)) = d.
C2_RoundTripFromShamsy ==
    (fn = "shamsyToGregorian" /\ ret[1] \in WideRange)
        => gregorianToshamsy(ret[1], ret[2], ret[3]) = input

\* C3: known conversion.  gregorianToshamsy(2024, 3, 20) returns
\* (1403, 1, 1), Nowruz.
C3_KnownGregorianToShamsy ==
    (fn = "gregorianToshamsy" /\ input = <<2024, 3, 20>>) => ret = <<1403, 1, 1>>

\* C4: known conversion.  shamsyToGregorian(1403, 1, 1) returns (2024, 3, 20).
C4_KnownShamsyToGregorian ==
    (fn = "shamsyToGregorian" /\ input = <<1403, 1, 1>>) => ret = <<2024, 3, 20>>

C4_Witness ==
    fn = "shamsyToGregorian" /\ input = <<1403, 1, 1>> /\ err = "none"

\* C5: monotonicity of a Gregorian sweep.  For every valid Gregorian date g
\* of the range, gregorianToshamsy(g + 1 day) is the Solar Hijri day after
\* gregorianToshamsy(g): no Solar Hijri date twice, none skipped.
C5_GregorianSweepMonotone ==
    (fn = "gregorianToshamsy" /\ input[1] \in WideRange)
        => LET g1 == gregorianNextDay(input)
           IN  gregorianToshamsy(g1[1], g1[2], g1[3]) = shamsyNextDay(ret)

\* C6: monotonicity of a Solar Hijri sweep.  For every valid Solar Hijri
\* date s of the range (its Gregorian image in 1000..3000),
\* shamsyToGregorian(s + 1 day) is the Gregorian day after
\* shamsyToGregorian(s): no Gregorian date twice, none skipped.
C6_ShamsySweepMonotone ==
    (fn = "shamsyToGregorian" /\ ret[1] \in WideRange)
        => LET s1 == shamsyNextDay(input)
           IN  shamsyToGregorian(s1[1], s1[2], s1[3]) = gregorianNextDay(ret)

\* C7: Solar Hijri leap rule.  For every year >= 1, isshamsyLeapYear(year)
\* is true iff ((year - 474) mod 2820) mod 33, with the first residue taken
\* non-negative, is one of 1, 5, 9, 13, 17, 22, 26, 30.
C7_ShamsyLeapRule ==
    fn = "isshamsyLeapYear"
        => (ret <=> (((input[1] - 474) % 2820) % 33
                        \in {1, 5, 9, 13, 17, 22, 26, 30}))

\* C8: Gregorian leap rule.  For every year, isGregorianLeapYear(year) is
\* true iff the year is divisible by 4 and not by 100, or divisible by 400;
\* 2000 and 2024 are leap, 1900 is not.
C8_GregorianLeapRule ==
    fn = "isGregorianLeapYear"
        => /\ ret <=> \/ (input[1] % 4 = 0 /\ input[1] % 100 # 0)
                      \/ input[1] % 400 = 0
           /\ input[1] \in {2000, 2024} => ret = TRUE
           /\ input[1] = 1900 => ret = FALSE

C8_Witness ==
    fn = "isGregorianLeapYear" /\ input = <<2000>> /\ ret = TRUE

\* C9: Solar Hijri month length.  For every year and month in 1..12,
\* shamsyMonthDays is 31 for months 1-6, 30 for months 7-11, and for month
\* 12 it is 30 if isshamsyLeapYear(year) and 29 otherwise.
C9_ShamsyMonthLength ==
    (fn = "shamsyMonthDays" /\ input[2] \in 1..12)
        => /\ input[2] \in 1..6 => ret = 31
           /\ input[2] \in 7..11 => ret = 30
           /\ input[2] = 12 => ret = (IF isshamsyLeapYear(input[1]) THEN 30 ELSE 29)

C9_Witness ==
    fn = "shamsyMonthDays" /\ input = <<1403, 12>> /\ ret = 30

\* C10: Gregorian month length.  For every year and month in 1..12,
\* gregorianMonthDays is the month's entry of
\* 31,28,31,30,31,30,31,31,30,31,30,31, except that February is 29 when
\* isGregorianLeapYear(year); gregorianMonthDays(2024, 2) = 29.
C10_GregorianMonthLength ==
    (fn = "gregorianMonthDays" /\ input[2] \in 1..12)
        => /\ err = "none"
           /\ ret = IF input[2] = 2 /\ isGregorianLeapYear(input[1])
                      THEN 29
                      ELSE <<31, 28, 31, 30, 31, 30, 31, 31, 30, 31, 30, 31>>[input[2]]
           /\ input = <<2024, 2>> => ret = 29

C10_Witness ==
    fn = "gregorianMonthDays" /\ input = <<2024, 2>> /\ ret = 29

\* C11: both month-length lookups fail with an out-of-range error for
\* every month outside 1..12, and neither returns a day count for it.
C11_MonthOutOfRangeFails ==
    (fn \in {"shamsyMonthDays", "gregorianMonthDays"} /\ input[2] \notin 1..12)
        => err # "none"

\* C12: output validity, Gregorian to Solar Hijri.  For every valid
\* Gregorian date with year >= 1, gregorianToshamsy returns (jy, jm, jd)
\* with 1 <= jm <= 12 and 1 <= jd <= shamsyMonthDays(jy, jm).
C12_ShamsyOutputValid ==
    fn = "gregorianToshamsy"
        => /\ err = "none"
           /\ ret[2] \in 1..12
           /\ ret[3] \in 1..shamsyMonthDays(ret[1], ret[2])

\* C13: output validity, Solar Hijri to Gregorian.  For every valid Solar
\* Hijri date with year >= 1, shamsyToGregorian returns (gy, gm, gd) with
\* 1 <= gm <= 12 and 1 <= gd <= gregorianMonthDays(gy, gm).
C13_GregorianOutputValid ==
    fn = "shamsyToGregorian"
        => /\ err = "none"
           /\ ret[2] \in 1..12
           /\ ret[3] \in 1..gregorianMonthDays(ret[1], ret[2])

C13_Witness ==
    fn = "shamsyToGregorian" /\ input = <<1403, 10, 11>> /\ ret = <<2024, 12, 31>>

\* C14: on contract-conforming input (year >= 1, month in 1..12, day within
\* the month) the conversions return a triple and never panic: every index
\* into a month table is inside the table.
C14_ConversionsNeverPanic ==
    fn \in {"gregorianToshamsy", "shamsyToGregorian"}
        => err = "none" /\ Len(ret) = 3

C14_Witness ==
    /\ fn = "gregorianToshamsy"
    /\ input = <<2024, 12, 31>>
    /\ err = "none"
    /\ Len(ret) = 3

\* Zeller's congruence for the Gregorian calendar: 0 = Saturday, 1 = Sunday,
\* .. 6 = Friday.
zellerWeekday(y0, m0, d) ==
    LET m == IF m0 < 3 THEN m0 + 12 ELSE m0
        y == IF m0 < 3 THEN y0 - 1 ELSE y0
        K == y % 100
        J == y \div 100
    IN  (d + ((13 * (m + 1)) \div 5) + K + (K \div 4) + (J \div 4) + 5 * J) % 7

\* C16: goToshamsyWeekday is a permutation of 0..6 sending the Gregorian
\* weekday index w (0 = Sunday) to (w + 1) mod 7; getFirstWeekday and
\* getWeekdayName apply it to the weekday of the Gregorian date, so that
\* getWeekdayName is the English name of the date's weekday.
C16_WeekdayRemapping ==
    /\ \A w \in 0..6 : GoIndex(goToshamsyWeekday, w) = (w + 1) % 7
    /\ {GoIndex(goToshamsyWeekday, w) : w \in 0..6} = 0..6
    /\ fn = "getWeekdayName"
         => /\ ret = <<"Saturday", "Sunday", "Monday", "Tuesday", "Wednesday",
                       "Thursday", "Friday">>[
                        zellerWeekday(input[1], input[2], input[3]) + 1]
            /\ input = <<2024, 3, 20>> => ret = "Wednesday"
    /\ fn = "getFirstWeekday"
         => LET g == shamsyToGregorian(input[1], input[2], 1)
            IN  ret = zellerWeekday(g[1], g[2], g[3])

C16_Witness ==
    fn = "getWeekdayName" /\ input = <<2024, 3, 20>> /\ ret = "Wednesday"

\* C18: the leap oracle agrees with the converter.  For every Solar Hijri
\* year y >= 1, the days from shamsyToGregorian(y, 1, 1) to
\* shamsyToGregorian(y + 1, 1, 1) number 366 iff isshamsyLeapYear(y), and
\* 365 otherwise.
C18_LeapOracleAgreesWithConverter ==
    fn = "isshamsyLeapYear"
        => LET a == shamsyToGregorian(input[1], 1, 1)
               b == shamsyToGregorian(input[1] + 1, 1, 1)
           IN  goDayNumber(b[1], b[2], b[3]) - goDayNumber(a[1], a[2], a[3])
                 = IF ret THEN 366 ELSE 365


\* A conversion made by a command is of a valid date of its source calendar.
validCall(c) ==
    /\ c[2] >= 1
    /\ c[3] \in 1..12
    /\ c[4] >= 1
    /\ c[4] <= IF c[1] = "gregorianToshamsy"
                 THEN gregorianMonthDays(c[2], c[3])
                 ELSE shamsyMonthDays(c[2], c[3])

\* C15: callers validate before converting.  On every path through main and
\* handleConvertDate, each call of gregorianToshamsy or shamsyToGregorian
\* gets year >= 1, month in 1..12 and day in 1..month length of its source
\* calendar, and a -c date that fails this is rejected with an error before
\* any conversion is made.
C15_CallersValidate ==
    /\ fn \in {"handleConvertDate", "main"} => \A c \in calls : validCall(c)
    /\ fn = "handleConvertDate"
         => \/ validCall(<<IF input[2] THEN "gregorianToshamsy"
                                       ELSE "shamsyToGregorian",
                           input[3], input[4], input[5]>>)
            \/ err # "none" /\ calls = {}

\* C19: holiday coverage in Gregorian mode.  For a Gregorian year y >= 1
\* given on the command line, every holiday key printGregorianCalendar looks
\* up has the Solar Hijri year jy or jy + 1 of the two maps main fetched,
\* jy being the Solar Hijri year of gregorianToshamsy(y, 1, 1).
C19_HolidayCoverage ==
    (fn = "main" /\ input[2] /\ input[3] >= 1 /\ err = "none")
        => LET jy == gregorianToshamsy(input[4], 1, 1)[1]
           IN  /\ ret.fetched = {jy, jy + 1}
               /\ \A k \in ret.lookedUp : k[1] \in ret.fetched

C21_EpochSplitContinuous ==
    /\ (fn = "gregorianToshamsy" /\ input = <<1600, 12, 31>>)
         => gregorianToshamsy(1601, 1, 1) = shamsyNextDay(ret)
    /\ (fn = "gregorianToshamsy" /\ input = <<1601, 1, 1>>)
         => ret = shamsyNextDay(gregorianToshamsy(1600, 12, 31))

C21_Witness ==
    /\ fn = "gregorianToshamsy"
    /\ input = <<1601, 1, 1>>
    /\ ret = <<979, 10, 11>>


\* C22: cache-first holiday lookup.  A call of fetchHolidays(Y) that finds
\* the cache file of Y written returns the map of that file and makes no
\* HTTP request; an HTTP request is made only when the file is missing or
\* unreadable; the file a successful call writes holds the map the call
\* returned, and a written file is never written again: so every later call
\* returns the same map from the cache.
C22_CacheFirst ==
    [][ fn' = "fetchHolidays" =>
          LET year == input'[1]
              file == cache.files[year]
          IN  /\ (cache.dir /\ file.kind = "json")
                   => /\ err' = "none"
                      /\ ret' = jsonUnmarshal(file.data)
                      /\ requests' = requests
                      /\ "http.Get" \notin calls'
                      /\ cache' = cache
              /\ (requests' # requests \/ "http.Get" \in calls')
                   => file.kind \in {"missing", "damaged"}
              /\ (cache'.files[year] # file /\ cache'.files[year].kind = "json")
                   => /\ err' = "none"
                      /\ jsonUnmarshal(cache'.files[year].data) = ret'
              /\ \A y \in CacheYears :
                   cache.files[y].kind = "json" => cache'.files[y] = cache.files[y]
      ]_vars

\* The second call for 1403: one request was made, by the first call, and
\* this call read the map back from the file.
C22_Witness ==
    /\ fn = "fetchHolidays"
    /\ input = <<1403>>
    /\ err = "none"
    /\ calls = {"os.UserCacheDir", "os.ReadFile"}
    /\ requests = 1
    /\ cache.files[1403].kind = "json"
    /\ DOMAIN ret = {<<1403, 1, 1>>, <<1403, 1, 2>>, <<1403, 1, 13>>}
    /\ ret[<<1403, 1, 13>>] = <<"Nature Day", "; ", "Sizdah Bedar">>
    /\ ret[<<1403, 1, 2>>] = <<"Holiday">>


\* C23: the two revisions of the inverse transform agree.  For every valid
\* Solar Hijri date with year >= 1, shamsyToGregorian of
\* src/unnamed/part_000 returns the Gregorian triple that shamsyToGregorian
\* of src/main.go returns.
C23_RevisionsAgree ==
    /\ fn = "shamsyToGregorianPart000"
         => ret = shamsyToGregorian(input[1], input[2], input[3])
    /\ fn = "shamsyToGregorian"
         => ret = shamsyToGregorianPart000(input[1], input[2], input[3])

=============================================================================
